---- MODULE Spec2Model ----
(***************************************************************************)
(* PepLibGen/Analysis/chem_analysis.py: log_partition_coefficient,         *)
(* lipinski_trial and lipinski_pass over the rdkit collaborator.           *)
(*                                                                         *)
(* A behaviour is a session of calls on one SMILES string.  The            *)
(* collaborator is deterministic, so what it answers for that string (the  *)
(* parse outcome and the four descriptors of the parsed molecule) is drawn *)
(* once, in Init, from bounded sets around the four thresholds.  Each      *)
(* statement of the three functions is one action; pc is the position of   *)
(* the interpreter.                                                        *)
(*                                                                         *)
(* Molecular weight and logP are floats in the source.  They are modelled  *)
(* in fixed point, as integer multiples of 1/Scale, so that values         *)
(* strictly between two integers exist; a comparison x >= 500 of the       *)
(* source is x >= 500 * Scale here.                                        *)
(***************************************************************************)
EXTENDS Integers, Sequences, FiniteSets, TLC

\* ---------------------------------------------------------------- bounds
\* descriptor values are drawn from threshold-Margin .. threshold+Margin
Margin == 1
\* fixed-point denominator of the float descriptors (weight, logP)
Scale == 2

\* ------------------------------------------------- thresholds of the code
MaxHDonors == 5
MaxHAcceptors == 10
MaxMolWeight == 500
MaxLogP == 5

\* ------------------------------------------------------------ the inputs
SmilesStrings == {"CCO", "invalid_smiles_!!!"}
\* Chem.MolFromSmiles: a molecule, None, or an exception of its own
ParseOutcomes == {"Mol", "None", "raise"}
HDonorCounts == (MaxHDonors - Margin)..(MaxHDonors + Margin)
HAcceptorCounts == (MaxHAcceptors - Margin)..(MaxHAcceptors + Margin)
MolWeights == (MaxMolWeight * Scale - Margin)..(MaxMolWeight * Scale + Margin)
\* logP may be negative (ethanol is about -0.0014): -1/Scale is included
LogPs == {-1} \cup ((MaxLogP * Scale - Margin)..(MaxLogP * Scale + Margin))

Functions == {"log_partition_coefficient", "lipinski_trial", "lipinski_pass"}
RuleOrder == <<"donors", "acceptors", "weight", "logP">>

VARIABLES
    smiles,         \* the argument of every call of the session
    lib,            \* what the collaborator answers for smiles
    pc,             \* the statement about to run, "idle" between calls
    op,             \* the function the caller invoked, "none" before the first
    mol,            \* local mol: "unbound", "None" or "Mol"
    num_hdonors,    \* locals of lipinski_trial (0 while unbound)
    num_hacceptors,
    mol_weight,
    mol_logp,
    passed,         \* local lists of lipinski_trial
    failed,
    trace,          \* collaborator calls and comparisons of the current call
    result,         \* outcome of the latest call
    lastResult      \* per function, the outcome of its latest archived call

vars == <<smiles, lib, pc, op, mol, num_hdonors, num_hacceptors, mol_weight,
          mol_logp, passed, failed, trace, result, lastResult>>

world == <<smiles, lib>>
locals == <<mol, num_hdonors, num_hacceptors, mol_weight, mol_logp, passed, failed>>
numbers == <<num_hdonors, num_hacceptors, mol_weight, mol_logp>>

\* ------------------------------------------------------------- outcomes
NoResult == [kind |-> "none", exc |-> "", msg |-> <<>>, val |-> <<>>]
Return(v) == [kind |-> "return", exc |-> "", msg |-> <<>>, val |-> v]
Raise(e, m) == [kind |-> "raise", exc |-> e, msg |-> m, val |-> <<>>]

\* "template % value": the text with the value substituted for %s
Format(template, value) == <<template, value>>

\* ------------------------------------------------------- the collaborator
\* the exception Chem.MolFromSmiles raises by itself (e.g. on a non-string)
ParserError == Raise("ParserError", <<>>)
\* the exception a descriptor function raises when handed None
ArgumentError == Raise("ArgumentError", <<>>)

MolFromSmiles(s) == lib.parse
NumHDonors(m) == lib.hdonors
NumHAcceptors(m) == lib.hacceptors
MolWt(m) == lib.molwt
MolLogP(m) == lib.logp

\* ---------------------------------------------------------------- frames
\* a function that returns or raises drops its locals
DropFrame ==
    /\ mol' = "unbound"
    /\ num_hdonors' = 0
    /\ num_hacceptors' = 0
    /\ mol_weight' = 0
    /\ mol_logp' = 0
    /\ passed' = <<>>
    /\ failed' = <<>>

\* mutant: lipinski_pass catches the exception and answers False
LpUnwind_Swallow(e) == Return(<<FALSE>>)

\* lipinski_pass has no try/except around line 87: an exception of
\* lipinski_trial leaves lipinski_pass as it is
LpUnwind(e) == e

\* an exception e leaves the function that raised it, and lipinski_pass when
\* lipinski_trial was called from it
Unwind(e) ==
    /\ result' = IF op = "lipinski_pass" THEN LpUnwind(e) ELSE e
    /\ pc' = "idle"
    /\ DropFrame

Init ==
    /\ smiles \in SmilesStrings
    /\ \E p \in ParseOutcomes :
          IF p = "Mol"
          THEN \E d \in HDonorCounts, a \in HAcceptorCounts,
                  w \in MolWeights, l \in LogPs :
                  lib = [parse |-> p, hdonors |-> d, hacceptors |-> a,
                         molwt |-> w, logp |-> l]
          ELSE lib = [parse |-> p, hdonors |-> 0, hacceptors |-> 0,
                      molwt |-> 0, logp |-> 0]
    /\ pc = "idle"
    /\ op = "none"
    /\ mol = "unbound"
    /\ num_hdonors = 0
    /\ num_hacceptors = 0
    /\ mol_weight = 0
    /\ mol_logp = 0
    /\ passed = <<>>
    /\ failed = <<>>
    /\ trace = <<>>
    /\ result = NoResult
    /\ lastResult = [f \in Functions |-> NoResult]

\* the caller invokes f(smiles); the outcome of the call before is archived
Entry(f) ==
    CASE f = "log_partition_coefficient" -> "lpc_parse"
      [] f = "lipinski_trial" -> "lt_init"
      [] f = "lipinski_pass" -> "lp_call"

Call ==
    /\ pc = "idle"
    /\ \E f \in Functions :
          /\ op' = f
          /\ pc' = Entry(f)
    /\ lastResult' = IF op = "none" THEN lastResult
                     ELSE [lastResult EXCEPT ![op] = result]
    /\ result' = NoResult
    /\ trace' = <<>>
    /\ UNCHANGED <<world, locals>>

\* ------------------------------------------- log_partition_coefficient
\* mutant: the parse call is not wrapped in try/except
LpcParse_NoTry ==
    /\ pc = "lpc_parse"
    /\ trace' = Append(trace, "MolFromSmiles")
    /\ IF MolFromSmiles(smiles) = "raise"
       THEN /\ Unwind(ParserError)
            /\ UNCHANGED <<world, op, lastResult>>
       ELSE /\ mol' = MolFromSmiles(smiles)
            /\ pc' = "lpc_logp"
            /\ UNCHANGED <<world, op, numbers, passed, failed, result, lastResult>>

\* lines 28-31: try: mol = Chem.MolFromSmiles(smiles) except Exception: raise
LpcParse ==
    /\ pc = "lpc_parse"
    /\ trace' = Append(trace, "MolFromSmiles")
    /\ IF MolFromSmiles(smiles) = "raise"
       THEN /\ Unwind(Raise("SmilesError",
                            Format("%s returns a None molecule", smiles)))
            /\ UNCHANGED <<world, op, lastResult>>
       ELSE /\ mol' = MolFromSmiles(smiles)
            /\ pc' = "lpc_logp"
            /\ UNCHANGED <<world, op, numbers, passed, failed, result, lastResult>>

\* mutant: the wrong descriptor is returned
LpcLogP_WrongDescriptor ==
    /\ pc = "lpc_logp"
    /\ trace' = Append(trace, "MolLogP")
    /\ IF mol = "None"
       THEN Unwind(ArgumentError)
       ELSE /\ result' = Return(<<MolWt(mol)>>)
            /\ pc' = "idle"
            /\ DropFrame
    /\ UNCHANGED <<world, op, lastResult>>

\* line 33: return Crippen.MolLogP(mol)
LpcLogP ==
    /\ pc = "lpc_logp"
    /\ trace' = Append(trace, "MolLogP")
    /\ IF mol = "None"
       THEN Unwind(ArgumentError)
       ELSE /\ result' = Return(<<MolLogP(mol)>>)
            /\ pc' = "idle"
            /\ DropFrame
    /\ UNCHANGED <<world, op, lastResult>>

\* ------------------------------------------------------- lipinski_trial
\* lines 46-47: passed = []; failed = []
LtInit ==
    /\ pc = "lt_init"
    /\ passed' = <<>>
    /\ failed' = <<>>
    /\ pc' = "lt_parse"
    /\ UNCHANGED <<world, op, mol, numbers, trace, result, lastResult>>

\* line 49: mol = Chem.MolFromSmiles(smiles), outside any try
LtParse ==
    /\ pc = "lt_parse"
    /\ trace' = Append(trace, "MolFromSmiles")
    /\ IF MolFromSmiles(smiles) = "raise"
       THEN /\ Unwind(ParserError)
            /\ UNCHANGED <<world, op, lastResult>>
       ELSE /\ mol' = MolFromSmiles(smiles)
            /\ pc' = "lt_check"
            /\ UNCHANGED <<world, op, numbers, passed, failed, result, lastResult>>

\* lines 50-51: if mol is None: raise Exception(...)
LtCheck ==
    /\ pc = "lt_check"
    /\ IF mol = "None"
       THEN /\ Unwind(Raise("Exception",
                            Format("%s is not a valid SMILES string", smiles)))
            /\ UNCHANGED <<world, op, trace, lastResult>>
       ELSE /\ pc' = "lt_hdonors"
            /\ UNCHANGED <<world, op, locals, trace, result, lastResult>>

\* line 53: num_hdonors = Lipinski.NumHDonors(mol)
LtHDonors ==
    /\ pc = "lt_hdonors"
    /\ trace' = Append(trace, "NumHDonors")
    /\ num_hdonors' = NumHDonors(mol)
    /\ pc' = "lt_hacceptors"
    /\ UNCHANGED <<world, op, mol, num_hacceptors, mol_weight, mol_logp,
                   passed, failed, result, lastResult>>

\* line 54: num_hacceptors = Lipinski.NumHAcceptors(mol)
LtHAcceptors ==
    /\ pc = "lt_hacceptors"
    /\ trace' = Append(trace, "NumHAcceptors")
    /\ num_hacceptors' = NumHAcceptors(mol)
    /\ pc' = "lt_weight"
    /\ UNCHANGED <<world, op, mol, num_hdonors, mol_weight, mol_logp,
                   passed, failed, result, lastResult>>

\* line 55: mol_weight = Descriptors.MolWt(mol)
LtWeight ==
    /\ pc = "lt_weight"
    /\ trace' = Append(trace, "MolWt")
    /\ mol_weight' = MolWt(mol)
    /\ pc' = "lt_logp"
    /\ UNCHANGED <<world, op, mol, num_hdonors, num_hacceptors, mol_logp,
                   passed, failed, result, lastResult>>

\* line 56: mol_logp = Crippen.MolLogP(mol)
LtLogP ==
    /\ pc = "lt_logp"
    /\ trace' = Append(trace, "MolLogP")
    /\ mol_logp' = MolLogP(mol)
    /\ pc' = "lt_reset"
    /\ UNCHANGED <<world, op, mol, num_hdonors, num_hacceptors, mol_weight,
                   passed, failed, result, lastResult>>

\* line 58: failed = []
LtReset ==
    /\ pc = "lt_reset"
    /\ failed' = <<>>
    /\ pc' = "lt_rule_donors"
    /\ UNCHANGED <<world, op, mol, numbers, passed, trace, result, lastResult>>

\* the four conditions of lines 60, 65, 70 and 75
\* mutant: weight exactly 500 passes
WeightFails_Exclusive(w) == w > MaxMolWeight * Scale
DonorsFail(n) == n > MaxHDonors
AcceptorsFail(n) == n > MaxHAcceptors
WeightFails(w) == w >= MaxMolWeight * Scale
LogPFails(l) == l >= MaxLogP * Scale

\* mutant: the evaluation stops at the first failing rule
LtRuleDonors_ShortCircuit ==
    /\ pc = "lt_rule_donors"
    /\ trace' = Append(trace, "cmp_donors")
    /\ IF DonorsFail(num_hdonors)
       THEN /\ failed' = Append(failed,
                   Format("Over 5 H-bond donors, found %s", num_hdonors))
            /\ pc' = "lt_return"
            /\ UNCHANGED passed
       ELSE /\ passed' = Append(passed,
                   Format("Found %s H-bond donors", num_hdonors))
            /\ pc' = "lt_rule_acceptors"
            /\ UNCHANGED failed
    /\ UNCHANGED <<world, op, mol, numbers, result, lastResult>>

\* lines 60-63
LtRuleDonors ==
    /\ pc = "lt_rule_donors"
    /\ trace' = Append(trace, "cmp_donors")
    /\ IF DonorsFail(num_hdonors)
       THEN /\ failed' = Append(failed,
                   Format("Over 5 H-bond donors, found %s", num_hdonors))
            /\ UNCHANGED passed
       ELSE /\ passed' = Append(passed,
                   Format("Found %s H-bond donors", num_hdonors))
            /\ UNCHANGED failed
    /\ pc' = "lt_rule_acceptors"
    /\ UNCHANGED <<world, op, mol, numbers, result, lastResult>>

\* mutant: only failures are recorded
LtRuleAcceptors_OnlyFailures ==
    /\ pc = "lt_rule_acceptors"
    /\ trace' = Append(trace, "cmp_acceptors")
    /\ failed' = IF AcceptorsFail(num_hacceptors)
                 THEN Append(failed,
                        Format("Over 10 H-bond acceptors, found %s", num_hacceptors))
                 ELSE failed
    /\ pc' = "lt_rule_weight"
    /\ UNCHANGED <<world, op, mol, numbers, passed, result, lastResult>>

\* lines 65-68
LtRuleAcceptors ==
    /\ pc = "lt_rule_acceptors"
    /\ trace' = Append(trace, "cmp_acceptors")
    /\ IF AcceptorsFail(num_hacceptors)
       THEN /\ failed' = Append(failed,
                   Format("Over 10 H-bond acceptors, found %s", num_hacceptors))
            /\ UNCHANGED passed
       ELSE /\ passed' = Append(passed,
                   Format("Found %s H-bond acceptors", num_hacceptors))
            /\ UNCHANGED failed
    /\ pc' = "lt_rule_weight"
    /\ UNCHANGED <<world, op, mol, numbers, result, lastResult>>

\* mutant: a failure is put at the head of the list
LtRuleWeight_Prepend ==
    /\ pc = "lt_rule_weight"
    /\ trace' = Append(trace, "cmp_weight")
    /\ IF WeightFails(mol_weight)
       THEN /\ failed' = <<Format("Molecular weight over 500, calculated %s",
                                  mol_weight)>> \o failed
            /\ UNCHANGED passed
       ELSE /\ passed' = Append(passed,
                   Format("Molecular weight: %s", mol_weight))
            /\ UNCHANGED failed
    /\ pc' = "lt_rule_logp"
    /\ UNCHANGED <<world, op, mol, numbers, result, lastResult>>

\* lines 70-73
LtRuleWeight ==
    /\ pc = "lt_rule_weight"
    /\ trace' = Append(trace, "cmp_weight")
    /\ IF WeightFails(mol_weight)
       THEN /\ failed' = Append(failed,
                   Format("Molecular weight over 500, calculated %s", mol_weight))
            /\ UNCHANGED passed
       ELSE /\ passed' = Append(passed,
                   Format("Molecular weight: %s", mol_weight))
            /\ UNCHANGED failed
    /\ pc' = "lt_rule_logp"
    /\ UNCHANGED <<world, op, mol, numbers, result, lastResult>>

\* lines 75-78
LtRuleLogP ==
    /\ pc = "lt_rule_logp"
    /\ trace' = Append(trace, "cmp_logP")
    /\ IF LogPFails(mol_logp)
       THEN /\ failed' = Append(failed,
                   Format("Log partition coefficient over 5, calculated %s", mol_logp))
            /\ UNCHANGED passed
       ELSE /\ passed' = Append(passed,
                   Format("Log partition coefficient: %s", mol_logp))
            /\ UNCHANGED failed
    /\ pc' = "lt_return"
    /\ UNCHANGED <<world, op, mol, numbers, result, lastResult>>

\* line 80: return passed, failed.  Called from lipinski_pass, the pair is
\* unpacked into the locals passed, failed of lipinski_pass (line 87)
LtReturn ==
    /\ pc = "lt_return"
    /\ IF op = "lipinski_pass"
       THEN /\ pc' = "lp_test"
            /\ mol' = "unbound"
            /\ num_hdonors' = 0
            /\ num_hacceptors' = 0
            /\ mol_weight' = 0
            /\ mol_logp' = 0
            /\ UNCHANGED <<passed, failed, result>>
       ELSE /\ result' = Return(<<passed, failed>>)
            /\ pc' = "idle"
            /\ DropFrame
    /\ UNCHANGED <<world, op, trace, lastResult>>

\* -------------------------------------------------------- lipinski_pass
\* mutant: lipinski_pass parses the string itself before it delegates
LpCall_ParsesFirst ==
    /\ pc = "lp_call"
    /\ trace' = Append(trace, "MolFromSmiles")
    /\ pc' = "lt_init"
    /\ UNCHANGED <<world, op, locals, result, lastResult>>

\* line 87: passed, failed = lipinski_trial(smiles)
LpCall ==
    /\ pc = "lp_call"
    /\ pc' = "lt_init"
    /\ UNCHANGED <<world, op, locals, trace, result, lastResult>>

\* mutant: the wrong list is tested
LpTest_TestsPassed ==
    /\ pc = "lp_test"
    /\ result' = Return(<<passed # <<>> >>)
    /\ pc' = "idle"
    /\ DropFrame
    /\ UNCHANGED <<world, op, trace, lastResult>>

\* lines 88-91: if failed: return False else: return True
LpTest ==
    /\ pc = "lp_test"
    /\ result' = Return(<<failed = <<>> >>)
    /\ pc' = "idle"
    /\ DropFrame
    /\ UNCHANGED <<world, op, trace, lastResult>>

Next ==
    \/ Call
    \/ LpcParse
    \/ LpcLogP
    \/ LtInit
    \/ LtParse
    \/ LtCheck
    \/ LtHDonors
    \/ LtHAcceptors
    \/ LtWeight
    \/ LtLogP
    \/ LtReset
    \/ LtRuleDonors
    \/ LtRuleAcceptors
    \/ LtRuleWeight
    \/ LtRuleLogP
    \/ LtReturn
    \/ LpCall
    \/ LpTest

Spec == Init /\ [][Next]_vars

\* ================================================================ claims
Range(s) == {s[i] : i \in DOMAIN s}
Done(f) == pc = "idle" /\ op = f /\ result.kind # "none"
Valid == lib.parse = "Mol"
Null == lib.parse = "None"

\* the rule a message of lipinski_trial is about, read off its text
RuleOf(m) ==
    CASE m[1] \in {"Over 5 H-bond donors, found %s", "Found %s H-bond donors"}
           -> "donors"
      [] m[1] \in {"Over 10 H-bond acceptors, found %s", "Found %s H-bond acceptors"}
           -> "acceptors"
      [] m[1] \in {"Molecular weight over 500, calculated %s", "Molecular weight: %s"}
           -> "weight"
      [] m[1] \in {"Log partition coefficient over 5, calculated %s",
                   "Log partition coefficient: %s"}
           -> "logP"
RuleIndex(m) == CHOOSE i \in 1..4 : RuleOrder[i] = RuleOf(m)

\* what the collaborator reports for the rule's descriptor
Measured(r) ==
    CASE r = "donors" -> lib.hdonors
      [] r = "acceptors" -> lib.hacceptors
      [] r = "weight" -> lib.molwt
      [] r = "logP" -> lib.logp

\* C1: for a SMILES string the parser answers None for, both
\* log_partition_coefficient and lipinski_trial raise SmilesError, the same
\* single error kind, and not an error of a descriptor call on None.
C1_SameErrorKind ==
    \A f \in {"log_partition_coefficient", "lipinski_trial"} :
        (Done(f) /\ Null) =>
            (result.kind = "raise" /\ result.exc = "SmilesError")

OutcomesOf(r, val) ==
    {<<"pass", m>> : m \in {x \in Range(val[1]) : RuleOf(x) = r}}
        \cup {<<"fail", m>> : m \in {x \in Range(val[2]) : RuleOf(x) = r}}

C3_PassIffNoFailure ==
    (Done("lipinski_pass") /\ Valid) =>
        /\ result.kind = "return"
        /\ result.val = << /\ lib.hdonors <= 5
                           /\ lib.hacceptors <= 10
                           /\ lib.molwt < 500 * Scale
                           /\ lib.logp < 5 * Scale >>
        /\ lastResult["lipinski_trial"].kind = "return" =>
              result.val = << lastResult["lipinski_trial"].val[2] = <<>> >>

C3_Witness ==
    /\ Done("lipinski_pass") /\ Valid
    /\ lastResult["lipinski_trial"].kind = "return"
    /\ result.val = <<FALSE>>
    /\ lib.hdonors <= 5 /\ lib.hacceptors <= 10 /\ lib.molwt < 500 * Scale

\* C4: exactly 5 donors pass the donor rule and more fail it; exactly 10
\* acceptors pass the acceptor rule and more fail it; weight exactly 500
\* fails the weight rule and less passes it; logP exactly 5 fails the logP
\* rule and less passes it.
C4_Thresholds ==
    (Done("lipinski_trial") /\ Valid) =>
        LET p == Range(result.val[1])
            f == Range(result.val[2])
        IN  /\ lib.hdonors <= 5 =>
                  <<"Found %s H-bond donors", lib.hdonors>> \in p
            /\ lib.hdonors > 5 =>
                  <<"Over 5 H-bond donors, found %s", lib.hdonors>> \in f
            /\ lib.hacceptors <= 10 =>
                  <<"Found %s H-bond acceptors", lib.hacceptors>> \in p
            /\ lib.hacceptors > 10 =>
                  <<"Over 10 H-bond acceptors, found %s", lib.hacceptors>> \in f
            /\ lib.molwt >= 500 * Scale =>
                  <<"Molecular weight over 500, calculated %s", lib.molwt>> \in f
            /\ lib.molwt < 500 * Scale =>
                  <<"Molecular weight: %s", lib.molwt>> \in p
            /\ lib.logp >= 5 * Scale =>
                  <<"Log partition coefficient over 5, calculated %s", lib.logp>> \in f
            /\ lib.logp < 5 * Scale =>
                  <<"Log partition coefficient: %s", lib.logp>> \in p

\* C4 witness: all four descriptors exactly on their thresholds
C4_Witness ==
    /\ Done("lipinski_trial") /\ Valid
    /\ lib.hdonors = 5 /\ lib.hacceptors = 10
    /\ lib.molwt = 500 * Scale /\ lib.logp = 5 * Scale
    /\ Len(result.val[1]) = 2 /\ Len(result.val[2]) = 2

\* C5: for a valid SMILES string log_partition_coefficient raises nothing
\* and returns exactly the collaborator's partition coefficient of the
\* parsed molecule.
C5_ReturnsLogP ==
    (Done("log_partition_coefficient") /\ Valid) =>
        (result.kind = "return" /\ result.val = <<lib.logp>>)

C5_Witness ==
    /\ Done("log_partition_coefficient") /\ Valid
    /\ result.val = <<lib.logp>>
    /\ lib.logp # lib.molwt

\* C6: when the parse call itself raises, log_partition_coefficient raises
\* SmilesError carrying the SMILES string, never the parser's own error,
\* and the partition-coefficient function is not called.
C6_ParserErrorBecomesSmilesError ==
    (Done("log_partition_coefficient") /\ lib.parse = "raise") =>
        /\ result = Raise("SmilesError", <<"%s returns a None molecule", smiles>>)
        /\ trace = <<"MolFromSmiles">>

C6_Witness ==
    /\ Done("log_partition_coefficient") /\ lib.parse = "raise"
    /\ result.exc = "SmilesError"

\* C7: when lipinski_trial raises for a SMILES string, lipinski_pass raises
\* for it too, the same error with the same message, and returns no boolean.
C7_PassPropagates ==
    /\ (Done("lipinski_pass") /\ lastResult["lipinski_trial"].kind = "raise") =>
          result = lastResult["lipinski_trial"]
    /\ (Done("lipinski_trial") /\ result.kind = "raise"
          /\ lastResult["lipinski_pass"].kind # "none") =>
          lastResult["lipinski_pass"] = result

C7_Witness ==
    /\ Done("lipinski_pass")
    /\ lastResult["lipinski_trial"].kind = "raise"
    /\ lastResult["lipinski_trial"].exc = "Exception"
    /\ result.kind = "raise"

\* C8: every completed call has invoked the parser exactly once; between
\* calls no local (molecule, descriptor or list) is retained; and a call
\* yields what the earlier call of the same function on the string yielded.
C8_OneParseNoState ==
    /\ \A f \in Functions :
          Done(f) =>
              Cardinality({i \in DOMAIN trace : trace[i] = "MolFromSmiles"}) = 1
    /\ pc = "idle" =>
          locals = <<"unbound", 0, 0, 0, 0, <<>>, <<>> >>
    /\ \A f \in Functions :
          (Done(f) /\ lastResult[f].kind # "none") => result = lastResult[f]

C8_Witness ==
    /\ Done("lipinski_pass")
    /\ lastResult["lipinski_pass"].kind = "return"
    /\ lastResult["lipinski_trial"].kind = "return"
    /\ lastResult["lipinski_trial"].val[2] # <<>>

\* the events of a complete evaluation by lipinski_trial, in order
FullTrace ==
    <<"MolFromSmiles", "NumHDonors", "NumHAcceptors", "MolWt", "MolLogP",
      "cmp_donors", "cmp_acceptors", "cmp_weight", "cmp_logP">>

\* C9: lipinski_trial, called directly or by lipinski_pass, calls the four
\* descriptor functions in the order donors, acceptors, weight, logP before
\* any comparison and then makes all four comparisons, whichever rules
\* fail; for a string the parser answers None for it calls no descriptor.
C9_AllFourNoShortCircuit ==
    op \in {"lipinski_trial", "lipinski_pass"} =>
        /\ Len(trace) <= Len(FullTrace)
        /\ trace = SubSeq(FullTrace, 1, Len(trace))
        /\ (Done(op) /\ Valid) => trace = FullTrace
        /\ Null => trace \in {<<>>, <<"MolFromSmiles">>}

\* C9 witness: the first rule failed and the evaluation still ran to the end
C9_Witness ==
    /\ Done("lipinski_pass") /\ Valid
    /\ lib.hdonors > 5 /\ lib.hacceptors > 10
    /\ trace = FullTrace

\* the number of rules lipinski_trial has evaluated when about to run pc
RulesEvaluated ==
    CASE pc = "lt_rule_donors" -> 0
      [] pc = "lt_rule_acceptors" -> 1
      [] pc = "lt_rule_weight" -> 2
      [] pc = "lt_rule_logp" -> 3
      [] pc \in {"lt_return", "lp_test"} -> 4

Increasing(s) ==
    \A i, j \in DOMAIN s : i < j => RuleIndex(s[i]) < RuleIndex(s[j])

====
